---- MODULE Spec2Model ----
(***************************************************************************)
(* A model of render-wasm/src/shapes.rs (struct Shape and its mutators)    *)
(* and render-wasm/src/shapes/bools.rs (BoolType and its u8 decode).       *)
(*                                                                         *)
(* f32 values (coordinates, offsets, widths) are modelled by small         *)
(* integers: the code only stores, copies and compares them.               *)
(***************************************************************************)
EXTENDS Integers, Sequences, FiniteSets

VARIABLES id, children, kind, selrect, transform, rotation, clip_content,
          fills, strokes, blend_mode, opacity, hidden, op, arg, ret

fields == <<id, children, kind, selrect, transform, rotation, clip_content,
            fills, strokes, blend_mode, opacity, hidden>>

vars == <<id, children, kind, selrect, transform, rotation, clip_content,
          fills, strokes, blend_mode, opacity, hidden, op, arg, ret>>

\* ------------------------------------------------------------------ bounds
MaxSegs == 2
MaxStops == 3
MaxBuf == 2
MaxFills == 2
MaxStrokes == 2
MaxChildren == 3

\* the largest value of a u8
U8Max == 255

\* sample identifiers; 0 is Uuid::nil()
Ids == {0, 1}
\* sample values of the f32 coordinates of a box and of a path record
Coords == {0, 1}
Points == {0}
\* sample stroke widths
Widths == {1}
U8 == 0..U8Max

RECURSIVE SeqsUpTo(_, _)
SeqsUpTo(S, n) ==
    IF n = 0 THEN {<<>>}
    ELSE LET shorter == SeqsUpTo(S, n - 1)
         IN  shorter \cup {Append(s, x) : s \in {t \in shorter : Len(t) = n - 1}, x \in S}

\* ------------------------------------------------------------- math::Rect
Rect(left, top, right, bottom) ==
    [left |-> left, top |-> top, right |-> right, bottom |-> bottom]

new_empty == Rect(0, 0, 0, 0)

set_ltrb(rect, left, top, right, bottom) ==
    [rect EXCEPT !.left = left, !.top = top, !.right = right, !.bottom = bottom]

Rects == {Rect(l, t, r, b) : l \in Coords, t \in Coords, r \in Coords, b \in Coords}

\* --------------------------------------------------------------- BoolType
BoolTypes == {"Union", "Difference", "Intersection", "Exclusion"}

BoolTypeDefault == "Union"

\* a decode that rejects nothing but maps 3 to the default
BoolTypeFromSkipExclusion(value) ==
    CASE value = 0 -> "Union"
      [] value = 1 -> "Difference"
      [] value = 2 -> "Intersection"
      [] OTHER     -> BoolTypeDefault

BoolTypeFrom(value) ==
    CASE value = 0 -> "Union"
      [] value = 1 -> "Difference"
      [] value = 2 -> "Intersection"
      [] value = 3 -> "Exclusion"
      [] OTHER     -> BoolTypeDefault

\* ------------------------------------------------------------------- Path
\* A path is the sequence of its drawing commands.
MoveTo(p) == [cmd |-> "MoveTo", p |-> p]
LineTo(p) == [cmd |-> "LineTo", p |-> p]
CurveTo(p) == [cmd |-> "CurveTo", p |-> p]
Close == [cmd |-> "Close"]

Segments == {MoveTo(p) : p \in Points} \cup {LineTo(p) : p \in Points}
            \cup {CurveTo(p) : p \in Points} \cup {Close}

PathDefault == <<>>

\* RawPathData: one fixed-size record, a command tag and a coordinate payload
RawTags == 0..4

RawPathDatas == [tag : RawTags, p : Points]

ValidTag(tag) == tag \in 1..4

SegmentOf(raw) ==
    CASE raw.tag = 1 -> MoveTo(raw.p)
      [] raw.tag = 2 -> LineTo(raw.p)
      [] raw.tag = 3 -> CurveTo(raw.p)
      [] raw.tag = 4 -> Close

\* Path::try_from(Vec<RawPathData>): every record decodes or the whole decode fails
PathTryFrom(buffer) ==
    IF \A i \in 1..Len(buffer) : ValidTag(buffer[i].tag)
    THEN [ok |-> TRUE, path |-> [i \in 1..Len(buffer) |-> SegmentOf(buffer[i])]]
    ELSE [ok |-> FALSE, err |-> "Malformed input"]

PathBuffers == SeqsUpTo(RawPathDatas, MaxSegs)

Paths == SeqsUpTo(Segments, MaxSegs)

\* ------------------------------------------------------------------- Kind
KindRect(rect) == [tag |-> "Rect", rect |-> rect]
KindCircle(rect) == [tag |-> "Circle", rect |-> rect]
KindPath(path) == [tag |-> "Path", path |-> path]
KindBool(bool_type, path) == [tag |-> "Bool", bool_type |-> bool_type, path |-> path]

Kinds == {KindRect(r) : r \in Rects} \cup {KindCircle(r) : r \in Rects}
         \cup {KindPath(p) : p \in Paths}
         \cup {KindBool(b, p) : b \in BoolTypes, p \in Paths}

\* ------------------------------------------------------------------ Shape
MatrixIdentity == <<1, 0, 0, 1, 0, 0>>

BlendModeDefault == "SrcOver"

\* Shape::new
new(uuid) ==
    /\ id = uuid
    /\ children = <<>>
    /\ kind = KindRect(new_empty)
    /\ selrect = new_empty
    /\ transform = MatrixIdentity
    /\ rotation = 0
    /\ clip_content = TRUE
    /\ fills = <<>>
    /\ strokes = <<>>
    /\ blend_mode = BlendModeDefault
    /\ opacity = 1
    /\ hidden = FALSE

Init ==
    /\ \E uuid \in Ids : new(uuid)
    /\ op = "new"
    /\ arg = id
    /\ ret = "Self"

\* the geometry set_selrect leaves in kind, which keeps a primitive's old box
SelrectKindStale(k, rect) == k

\* a match that rebuilds a Rect and forgets the Circle
SelrectKindRectOnly(k, rect) == IF k.tag = "Rect" THEN KindRect(rect) ELSE k

\* the match of set_selrect: a primitive kind is rebuilt around the new box
SelrectKind(k, rect) ==
    CASE k.tag = "Rect"   -> KindRect(rect)
      [] k.tag = "Circle" -> KindCircle(rect)
      [] OTHER            -> k

set_selrect(left, top, right, bottom) ==
    /\ selrect' = set_ltrb(selrect, left, top, right, bottom)
    /\ kind' = SelrectKind(kind, selrect')
    /\ op' = "set_selrect"
    /\ arg' = <<left, top, right, bottom>>
    /\ ret' = "()"
    /\ UNCHANGED <<id, children, transform, rotation, clip_content,
                   fills, strokes, blend_mode, opacity, hidden>>

set_kind(k) ==
    /\ kind' = k
    /\ op' = "set_kind"
    /\ arg' = k
    /\ ret' = "()"
    /\ UNCHANGED <<id, children, selrect, transform, rotation, clip_content,
                   fills, strokes, blend_mode, opacity, hidden>>

\* a set_bool_type that always starts from the empty path
BoolTypeKindDropPath(k, bool_type) == KindBool(bool_type, PathDefault)

\* the match of set_bool_type
BoolTypeKind(k, bool_type) ==
    IF k.tag = "Bool" THEN KindBool(bool_type, k.path)
    ELSE KindBool(bool_type, PathDefault)

set_bool_type(bool_type) ==
    /\ kind' = BoolTypeKind(kind, bool_type)
    /\ op' = "set_bool_type"
    /\ arg' = bool_type
    /\ ret' = "()"
    /\ UNCHANGED <<id, children, selrect, transform, rotation, clip_content,
                   fills, strokes, blend_mode, opacity, hidden>>

\* a set_path_segments that forgets the operator of a Bool
PathSegmentsKindAlwaysPath(k, p) == KindPath(p)

\* the match of set_path_segments
PathSegmentsKind(k, p) ==
    IF k.tag = "Bool" THEN KindBool(k.bool_type, p)
    ELSE KindPath(p)

RECURSIVE ValidPrefix(_)
ValidPrefix(buffer) ==
    IF buffer = <<>> \/ ~ValidTag(Head(buffer).tag) THEN <<>>
    ELSE <<Head(buffer)>> \o ValidPrefix(Tail(buffer))

\* a set_path_segments that installs the records decoded before the bad one
set_path_segments_partial(buffer) ==
    LET parsed == PathTryFrom(buffer)
    IN  /\ op' = "set_path_segments"
        /\ arg' = buffer
        /\ IF parsed.ok
           THEN /\ kind' = PathSegmentsKind(kind, parsed.path)
                /\ ret' = "Ok"
           ELSE /\ kind' = PathSegmentsKind(kind, PathTryFrom(ValidPrefix(buffer)).path)
                /\ ret' = parsed.err
        /\ UNCHANGED <<id, children, selrect, transform, rotation, clip_content,
                       fills, strokes, blend_mode, opacity, hidden>>

set_path_segments(buffer) ==
    LET parsed == PathTryFrom(buffer)
    IN  /\ op' = "set_path_segments"
        /\ arg' = buffer
        /\ IF parsed.ok
           THEN /\ kind' = PathSegmentsKind(kind, parsed.path)
                /\ ret' = "Ok"
           ELSE /\ kind' = kind
                /\ ret' = parsed.err
        /\ UNCHANGED <<id, children, selrect, transform, rotation, clip_content,
                       fills, strokes, blend_mode, opacity, hidden>>

\* ------------------------------------------------------- Fill and Stroke
\* A gradient owns the ordered list of its stops.
Stop(color, offset) == [color |-> color, offset |-> offset]

Gradient(stops) == [stops |-> stops]

Solid(color) == [tag |-> "Solid", color |-> color]
LinearGradient(g) == [tag |-> "LinearGradient", gradient |-> g]
RadialGradient(g) == [tag |-> "RadialGradient", gradient |-> g]

Colors == {0}

\* the fills a caller can build: a colour, or a gradient that has no stop yet
NewFills == {Solid(c) : c \in Colors}
            \cup {LinearGradient(Gradient(<<>>)), RadialGradient(Gradient(<<>>))}

Stroke(width, fill) == [width |-> width, fill |-> fill]

NewStrokes == {Stroke(w, f) : w \in Widths, f \in NewFills}

\* RawStopData: one fixed-size record, an offset and a packed colour.  Offsets
\* are in units of 1.0, so 2 lies outside [0,1]; listing the larger offset
\* first lets a buffer be unsorted.
RawStopDatas == {[offset |-> 2, color |-> 0], [offset |-> 0, color |-> 1]}

StopBuffers == SeqsUpTo(RawStopDatas, MaxBuf)

RawStopColor(raw) == raw.color

RawStopOffset(raw) == raw.offset

\* Gradient::add_stop
add_stop(g, color, offset) == [g EXCEPT !.stops = Append(@, Stop(color, offset))]

\* a loop that walks the buffer from its back
RECURSIVE add_stops_reversed(_, _)
add_stops_reversed(g, buffer) ==
    IF buffer = <<>> THEN g
    ELSE LET stop == buffer[Len(buffer)]
         IN  add_stops_reversed(add_stop(g, RawStopColor(stop), RawStopOffset(stop)),
                                SubSeq(buffer, 1, Len(buffer) - 1))

\* for stop in buffer.into_iter() { gradient.add_stop(stop.color(), stop.offset()) }
RECURSIVE add_stops(_, _)
add_stops(g, buffer) ==
    IF buffer = <<>> THEN g
    ELSE LET stop == Head(buffer)
         IN  add_stops(add_stop(g, RawStopColor(stop), RawStopOffset(stop)), Tail(buffer))

IsGradient(fill) == fill.tag \in {"LinearGradient", "RadialGradient"}

RECURSIVE LastGradient(_)
LastGradient(v) ==
    IF v = <<>> THEN 0
    ELSE IF IsGradient(v[Len(v)]) THEN Len(v)
    ELSE LastGradient(SubSeq(v, 1, Len(v) - 1))

\* a lookup that searches back for the nearest gradient fill
ActiveFillNearestGradient(v) == IF LastGradient(v) = 0 THEN Len(v) ELSE LastGradient(v)

\* self.fills.last_mut(): the position of the last fill, 0 for None
ActiveFill(v) == Len(v)

\* an add_fill that puts the new fill in front
add_fill_front(f) ==
    /\ Len(fills) < MaxFills
    /\ fills' = <<f>> \o fills
    /\ op' = "add_fill"
    /\ arg' = f
    /\ ret' = "()"
    /\ UNCHANGED <<id, children, kind, selrect, transform, rotation, clip_content,
                   strokes, blend_mode, opacity, hidden>>

add_fill(f) ==
    /\ Len(fills) < MaxFills
    /\ fills' = Append(fills, f)
    /\ op' = "add_fill"
    /\ arg' = f
    /\ ret' = "()"
    /\ UNCHANGED <<id, children, kind, selrect, transform, rotation, clip_content,
                   strokes, blend_mode, opacity, hidden>>

clear_fills ==
    /\ fills' = <<>>
    /\ op' = "clear_fills"
    /\ arg' = <<>>
    /\ ret' = "()"
    /\ UNCHANGED <<id, children, kind, selrect, transform, rotation, clip_content,
                   strokes, blend_mode, opacity, hidden>>

add_fill_gradient_stops(buffer) ==
    LET i == ActiveFill(fills)
    IN  /\ op' = "add_fill_gradient_stops"
        /\ arg' = buffer
        /\ IF i = 0
           THEN /\ ret' = "Shape has no fills"
                /\ fills' = fills
           ELSE IF IsGradient(fills[i])
           THEN /\ Len(fills[i].gradient.stops) + Len(buffer) <= MaxStops
                /\ fills' = [fills EXCEPT ![i].gradient = add_stops(@, buffer)]
                /\ ret' = "Ok"
           ELSE /\ ret' = "Active fill is not a gradient"
                /\ fills' = fills
        /\ UNCHANGED <<id, children, kind, selrect, transform, rotation, clip_content,
                       strokes, blend_mode, opacity, hidden>>

\* a lookup that takes the first stroke
ActiveStrokeFirst(v) == IF v = <<>> THEN 0 ELSE 1

\* self.strokes.last_mut(): the position of the last stroke, 0 for None
ActiveStroke(v) == Len(v)

add_stroke(s) ==
    /\ Len(strokes) < MaxStrokes
    /\ strokes' = Append(strokes, s)
    /\ op' = "add_stroke"
    /\ arg' = s
    /\ ret' = "()"
    /\ UNCHANGED <<id, children, kind, selrect, transform, rotation, clip_content,
                   fills, blend_mode, opacity, hidden>>

\* a set_stroke_fill that repaints every stroke
set_stroke_fill_all(f) ==
    /\ op' = "set_stroke_fill"
    /\ arg' = f
    /\ IF strokes = <<>>
       THEN /\ ret' = "Shape has no strokes"
            /\ strokes' = strokes
       ELSE /\ strokes' = [i \in 1..Len(strokes) |-> [strokes[i] EXCEPT !.fill = f]]
            /\ ret' = "Ok"
    /\ UNCHANGED <<id, children, kind, selrect, transform, rotation, clip_content,
                   fills, blend_mode, opacity, hidden>>

set_stroke_fill(f) ==
    LET i == ActiveStroke(strokes)
    IN  /\ op' = "set_stroke_fill"
        /\ arg' = f
        /\ IF i = 0
           THEN /\ ret' = "Shape has no strokes"
                /\ strokes' = strokes
           ELSE /\ strokes' = [strokes EXCEPT ![i].fill = f]
                /\ ret' = "Ok"
        /\ UNCHANGED <<id, children, kind, selrect, transform, rotation, clip_content,
                       fills, blend_mode, opacity, hidden>>

add_stroke_gradient_stops(buffer) ==
    LET i == ActiveStroke(strokes)
    IN  /\ op' = "add_stroke_gradient_stops"
        /\ arg' = buffer
        /\ IF i = 0
           THEN /\ ret' = "Shape has no strokes"
                /\ strokes' = strokes
           ELSE IF IsGradient(strokes[i].fill)
           THEN /\ Len(strokes[i].fill.gradient.stops) + Len(buffer) <= MaxStops
                /\ strokes' = [strokes EXCEPT ![i].fill.gradient = add_stops(@, buffer)]
                /\ ret' = "Ok"
           ELSE /\ ret' = "Active stroke is not a gradient"
                /\ strokes' = strokes
        /\ UNCHANGED <<id, children, kind, selrect, transform, rotation, clip_content,
                       fills, blend_mode, opacity, hidden>>

clear_strokes ==
    /\ strokes' = <<>>
    /\ op' = "clear_strokes"
    /\ arg' = <<>>
    /\ ret' = "()"
    /\ UNCHANGED <<id, children, kind, selrect, transform, rotation, clip_content,
                   fills, blend_mode, opacity, hidden>>

\* ------------------------------------------------- path-space transform
\* f32 arithmetic is modelled exactly, over fractions <<numerator, denominator>>
\* kept in lowest terms with a positive denominator.
Abs(n) == IF n < 0 THEN -n ELSE n

RECURSIVE GCD(_, _)
GCD(m, n) == IF n = 0 THEN m ELSE GCD(n, m % n)

Q(n, d) ==
    LET g == GCD(Abs(n), Abs(d))
        s == IF d < 0 THEN -1 ELSE 1
    IN  <<(s * n) \div g, (s * d) \div g>>

QInt(n) == <<n, 1>>
QAdd(x, y) == Q(x[1] * y[2] + y[1] * x[2], x[2] * y[2])
QNeg(x) == <<-x[1], x[2]>>
QSub(x, y) == QAdd(x, QNeg(y))
QMul(x, y) == Q(x[1] * y[1], x[2] * y[2])
QDiv(x, y) == Q(x[1] * y[2], x[2] * y[1])

\* a point
Point(x, y) == [x |-> x, y |-> y]

PointNeg(p) == Point(QNeg(p.x), QNeg(p.y))

\* skia::Matrix, affine: x' = sx*x + kx*y + tx, y' = ky*x + sy*y + ty
SkMatrix(sx, kx, tx, ky, sy, ty) ==
    [sx |-> sx, kx |-> kx, tx |-> tx, ky |-> ky, sy |-> sy, ty |-> ty]

new_identity == SkMatrix(QInt(1), QInt(0), QInt(0), QInt(0), QInt(1), QInt(0))

\* the product m * n: n is applied first
Concat(m, n) ==
    SkMatrix(QAdd(QMul(m.sx, n.sx), QMul(m.kx, n.ky)),
             QAdd(QMul(m.sx, n.kx), QMul(m.kx, n.sy)),
             QAdd(QAdd(QMul(m.sx, n.tx), QMul(m.kx, n.ty)), m.tx),
             QAdd(QMul(m.ky, n.sx), QMul(m.sy, n.ky)),
             QAdd(QMul(m.ky, n.kx), QMul(m.sy, n.sy)),
             QAdd(QAdd(QMul(m.ky, n.tx), QMul(m.sy, n.ty)), m.ty))

Translation(p) == SkMatrix(QInt(1), QInt(0), p.x, QInt(0), QInt(1), p.y)

pre_translate(m, p) == Concat(m, Translation(p))

pre_concat(m, n) == Concat(m, n)

MapPoint(m, p) ==
    Point(QAdd(QAdd(QMul(m.sx, p.x), QMul(m.kx, p.y)), m.tx),
          QAdd(QAdd(QMul(m.ky, p.x), QMul(m.sy, p.y)), m.ty))

None == [some |-> FALSE]
Some(v) == [some |-> TRUE, value |-> v]

Det(m) == QSub(QMul(m.sx, m.sy), QMul(m.kx, m.ky))

\* skia::Matrix::invert: None when the matrix has no inverse
invert(m) ==
    IF Det(m)[1] = 0 THEN None
    ELSE LET det == Det(m)
             isx == QDiv(m.sy, det)
             ikx == QDiv(QNeg(m.kx), det)
             iky == QDiv(QNeg(m.ky), det)
             isy == QDiv(m.sx, det)
         IN  Some(SkMatrix(isx, ikx, QNeg(QAdd(QMul(isx, m.tx), QMul(ikx, m.ty))),
                           iky, isy, QNeg(QAdd(QMul(iky, m.tx), QMul(isy, m.ty)))))

\* Matrix::new(a, b, c, d, e, f)
MatrixNew(a, b, c, d, e, f) == <<a, b, c, d, e, f>>

\* Matrix::no_translation
no_translation(m) == MatrixNew(m[1], m[2], m[3], m[4], 0, 0)

\* Matrix::to_skia_matrix: x' = a*x + c*y + e, y' = b*x + d*y + f
to_skia_matrix(m) ==
    SkMatrix(QInt(m[1]), QInt(m[3]), QInt(m[5]), QInt(m[2]), QInt(m[4]), QInt(m[6]))

\* Shape::bounds
bounds == selrect

\* Rect::center
center(rect) == Point(Q(rect.left + rect.right, 2), Q(rect.top + rect.bottom, 2))

\* a match that takes a Path only
PathSpaceOnlyPath(k) == k.tag = "Path"

\* Kind::Path(_) | Kind::Bool(_, _)
PathSpace(k) == k.tag \in {"Path", "Bool"}

\* a composition that forgets to translate back
ComposeNoReturn(c, inverse) ==
    pre_concat(pre_translate(new_identity, c), inverse)

\* a composition that translates by -center first and by center last
ComposeSwapped(c, inverse) ==
    pre_translate(pre_concat(pre_translate(new_identity, PointNeg(c)), inverse), c)

\* the three pre-multiplications on the identity matrix
Compose(c, inverse) ==
    pre_translate(pre_concat(pre_translate(new_identity, c), inverse), PointNeg(c))

PathTransform ==
    IF PathSpace(kind)
    THEN LET inverse == invert(to_skia_matrix(no_translation(transform)))
         IN  IF inverse.some THEN Some(Compose(center(bounds), inverse.value))
             ELSE None
    ELSE None

to_path_transform ==
    /\ op' = "to_path_transform"
    /\ arg' = <<>>
    /\ ret' = PathTransform
    /\ UNCHANGED fields

\* sample values of the six f32 coefficients of a transform
CoefA == {0, 1, 2}
CoefB == {0, 1}
CoefC == {0, -1}
CoefD == {1, 2}
CoefE == {3}
CoefF == {5}

set_transform(a, b, c, d, e, f) ==
    /\ transform' = MatrixNew(a, b, c, d, e, f)
    /\ op' = "set_transform"
    /\ arg' = <<a, b, c, d, e, f>>
    /\ ret' = "()"
    /\ UNCHANGED <<id, children, kind, selrect, rotation, clip_content,
                   fills, strokes, blend_mode, opacity, hidden>>

\* sample angles, opacities and blend modes
Angles == {0, 90}
Opacities == {0, 1}
BlendModes == {"SrcOver", "Multiply"}

set_clip(value) ==
    /\ clip_content' = value
    /\ op' = "set_clip"
    /\ arg' = value
    /\ ret' = "()"
    /\ UNCHANGED <<id, children, kind, selrect, transform, rotation,
                   fills, strokes, blend_mode, opacity, hidden>>

set_rotation(angle) ==
    /\ rotation' = angle
    /\ op' = "set_rotation"
    /\ arg' = angle
    /\ ret' = "()"
    /\ UNCHANGED <<id, children, kind, selrect, transform, clip_content,
                   fills, strokes, blend_mode, opacity, hidden>>

\* a set_opacity that also hides a fully transparent shape
set_opacity_hides(value) ==
    /\ opacity' = value
    /\ hidden' = (value = 0)
    /\ op' = "set_opacity"
    /\ arg' = value
    /\ ret' = "()"
    /\ UNCHANGED <<id, children, kind, selrect, transform, rotation, clip_content,
                   fills, strokes, blend_mode>>

set_opacity(value) ==
    /\ opacity' = value
    /\ op' = "set_opacity"
    /\ arg' = value
    /\ ret' = "()"
    /\ UNCHANGED <<id, children, kind, selrect, transform, rotation, clip_content,
                   fills, strokes, blend_mode, hidden>>

set_hidden(value) ==
    /\ hidden' = value
    /\ op' = "set_hidden"
    /\ arg' = value
    /\ ret' = "()"
    /\ UNCHANGED <<id, children, kind, selrect, transform, rotation, clip_content,
                   fills, strokes, blend_mode, opacity>>

set_blend_mode(mode) ==
    /\ blend_mode' = mode
    /\ op' = "set_blend_mode"
    /\ arg' = mode
    /\ ret' = "()"
    /\ UNCHANGED <<id, children, kind, selrect, transform, rotation, clip_content,
                   fills, strokes, opacity, hidden>>

\* an add_child that keeps one entry per id
add_child_unique(uuid) ==
    /\ Len(children) < MaxChildren
    /\ children' = IF \E i \in 1..Len(children) : children[i] = uuid
                   THEN children ELSE Append(children, uuid)
    /\ op' = "add_child"
    /\ arg' = uuid
    /\ ret' = "()"
    /\ UNCHANGED <<id, kind, selrect, transform, rotation, clip_content,
                   fills, strokes, blend_mode, opacity, hidden>>

add_child(uuid) ==
    /\ Len(children) < MaxChildren
    /\ children' = Append(children, uuid)
    /\ op' = "add_child"
    /\ arg' = uuid
    /\ ret' = "()"
    /\ UNCHANGED <<id, kind, selrect, transform, rotation, clip_content,
                   fills, strokes, blend_mode, opacity, hidden>>

clear_children ==
    /\ children' = <<>>
    /\ op' = "clear_children"
    /\ arg' = <<>>
    /\ ret' = "()"
    /\ UNCHANGED <<id, kind, selrect, transform, rotation, clip_content,
                   fills, strokes, blend_mode, opacity, hidden>>

\* BoolType::from applied to a byte handed over by the host
from(value) ==
    /\ op' = "BoolType::from"
    /\ arg' = value
    /\ ret' = BoolTypeFrom(value)
    /\ UNCHANGED fields

\* ---------------------------------------------------------- specifications
\* bounds, primitive geometry and the kind switches
NextGeometry ==
    \/ \E l \in Coords, t \in Coords, r \in Coords, b \in Coords : set_selrect(l, t, r, b)
    \/ \E k \in Kinds : set_kind(k)
    \/ \E b \in BoolTypes : set_bool_type(b)

SpecGeometry == Init /\ [][NextGeometry]_vars

\* path ingestion and the kind switches
NextPath ==
    \/ \E k \in Kinds : set_kind(k)
    \/ \E b \in BoolTypes : set_bool_type(b)
    \/ \E buffer \in PathBuffers : set_path_segments(buffer)

SpecPath == Init /\ [][NextPath]_vars

\* the fill list and its gradient stops
NextFills ==
    \/ \E f \in NewFills : add_fill(f)
    \/ clear_fills
    \/ \E buffer \in StopBuffers : add_fill_gradient_stops(buffer)

SpecFills == Init /\ [][NextFills]_vars

\* the stroke list, the stroke paint and its gradient stops
NextStrokes ==
    \/ \E s \in NewStrokes : add_stroke(s)
    \/ \E f \in NewFills : set_stroke_fill(f)
    \/ \E buffer \in StopBuffers : add_stroke_gradient_stops(buffer)
    \/ clear_strokes

SpecStrokes == Init /\ [][NextStrokes]_vars

\* kinds as a host creates them: a primitive with an empty box, a path of at
\* most one record, a Bool with no path yet
SmallKinds == {KindRect(new_empty), KindCircle(new_empty)}
              \cup {KindPath(p) : p \in {q \in Paths : Len(q) <= 1}}
              \cup {KindBool(b, PathDefault) : b \in BoolTypes}

\* bounds, transform, kind and the path-space transform read from them
NextTransform ==
    \/ \E l \in Coords, t \in Coords, r \in Coords, b \in Coords : set_selrect(l, t, r, b)
    \/ \E a \in CoefA, b \in CoefB, c \in CoefC, d \in CoefD, e \in CoefE, f \in CoefF :
          set_transform(a, b, c, d, e, f)
    \/ \E k \in SmallKinds : set_kind(k)
    \/ to_path_transform

SpecTransform == Init /\ [][NextTransform]_vars

\* the direct field writers, next to the writer of selrect and kind
NextFields ==
    \/ \E value \in BOOLEAN : set_clip(value)
    \/ \E angle \in Angles : set_rotation(angle)
    \/ \E a \in CoefA, b \in CoefB, c \in CoefC, d \in CoefD, e \in CoefE, f \in CoefF :
          set_transform(a, b, c, d, e, f)
    \/ \E value \in Opacities : set_opacity(value)
    \/ \E value \in BOOLEAN : set_hidden(value)
    \/ \E mode \in BlendModes : set_blend_mode(mode)
    \/ \E l \in Coords, t \in Coords, r \in Coords, b \in Coords : set_selrect(l, t, r, b)

SpecFields == Init /\ [][NextFields]_vars

\* the child list, next to writers of fills, strokes and kind
NextChildren ==
    \/ \E uuid \in Ids : add_child(uuid)
    \/ clear_children
    \/ \E f \in NewFills : add_fill(f)
    \/ \E s \in NewStrokes : add_stroke(s)
    \/ \E b \in BoolTypes : set_bool_type(b)

SpecChildren == Init /\ [][NextChildren]_vars

\* the numeric decode of BoolType on every byte
NextBool == \E value \in U8 : from(value)

SpecBool == Init /\ [][NextBool]_vars

\* ------------------------------------------------------------------ claims
BoxOf(ltrb) == Rect(ltrb[1], ltrb[2], ltrb[3], ltrb[4])

\* C1: after set_selrect(l,t,r,b) selrect is (l,t,r,b); a Rect or Circle keeps
\* its tag and its box becomes (l,t,r,b); a Path or Bool keeps its kind.
C1_SetSelrect ==
    [][op' = "set_selrect" =>
        /\ selrect' = BoxOf(arg')
        /\ kind.tag \in {"Rect", "Circle"} =>
              /\ kind'.tag = kind.tag
              /\ kind'.rect = BoxOf(arg')
        /\ kind.tag \in {"Path", "Bool"} => kind' = kind]_vars

\* a Circle whose box was moved to a new, non-empty selrect
C1_Witness ==
    /\ op = "set_selrect"
    /\ kind.tag = "Circle"
    /\ arg = <<0, 1, 1, 0>>
    /\ kind.rect = selrect

\* C4: set_bool_type(op) leaves Bool(op, p), p the old path of a Bool and the
\* empty path otherwise; on a Bool the path survives and the operator is the
\* one just supplied.
C4_SetBoolType ==
    [][op' = "set_bool_type" =>
        /\ kind'.tag = "Bool"
        /\ kind'.bool_type = arg'
        /\ kind'.path = IF kind.tag = "Bool" THEN kind.path ELSE <<>>]_vars

\* a Bool with a non-empty path whose operator was just switched
C4_Witness ==
    /\ op = "set_bool_type"
    /\ kind.tag = "Bool"
    /\ kind.bool_type = "Exclusion"
    /\ kind.path # <<>>

\* C5: a buffer that decodes to p leaves Bool(op, p) on a Bool(op, _) and
\* Path(p) on any other kind, and changes no other field.
C5_SetPathSegmentsOk ==
    [][op' = "set_path_segments" /\ PathTryFrom(arg').ok =>
        /\ kind' = IF kind.tag = "Bool"
                   THEN KindBool(kind.bool_type, PathTryFrom(arg').path)
                   ELSE KindPath(PathTryFrom(arg').path)
        /\ UNCHANGED <<id, children, selrect, transform, rotation, clip_content,
                       fills, strokes, blend_mode, opacity, hidden>>]_vars

\* a Bool that kept a non-default operator while it received a path
C5_Witness ==
    /\ op = "set_path_segments"
    /\ ret = "Ok"
    /\ kind.tag = "Bool"
    /\ kind.bool_type = "Difference"
    /\ Len(kind.path) = 2

Malformed(buffer) == \E i \in 1..Len(buffer) : buffer[i].tag \notin 1..4

\* C6: a malformed buffer makes set_path_segments fail with the parse error
\* and leaves kind and every other field as they were.
C6_SetPathSegmentsErr ==
    [][op' = "set_path_segments" /\ Malformed(arg') =>
        /\ ret' = "Malformed input"
        /\ UNCHANGED fields]_vars

\* a failed call whose buffer starts with a valid record, on a Bool with a path
C6_Witness ==
    /\ op = "set_path_segments"
    /\ ret = "Malformed input"
    /\ Len(arg) = 2
    /\ arg[1].tag = 1
    /\ kind.tag = "Bool"
    /\ kind.path # <<>>

\* C7: BoolType::from is defined on every byte: 0, 1, 2, 3 decode to Union,
\* Difference, Intersection, Exclusion and every larger byte to Union.
C7_BoolTypeFrom ==
    op = "BoolType::from" =>
        /\ ret \in BoolTypes
        /\ arg = 0 => ret = "Union"
        /\ arg = 1 => ret = "Difference"
        /\ arg = 2 => ret = "Intersection"
        /\ arg = 3 => ret = "Exclusion"
        /\ arg >= 4 => ret = "Union"

\* the largest byte was decoded
C7_Witness ==
    /\ op = "BoolType::from"
    /\ arg = 255
    /\ ret = "Union"

\* the stops a buffer of raw records stands for, in the order of the buffer
StopsOf(buffer) == [i \in 1..Len(buffer) |-> Stop(buffer[i].color, buffer[i].offset)]

OtherThanStrokes == <<id, children, kind, selrect, transform, rotation, clip_content,
                      fills, blend_mode, opacity, hidden>>

\* C2: add_fill_gradient_stops fails with "Shape has no fills" on an empty
\* fill list and with "Active fill is not a gradient" when the last fill is
\* Solid, whatever the earlier fills are; a failed call changes no field.
C2_FillStopsErr ==
    [][op' = "add_fill_gradient_stops" =>
        /\ fills = <<>> =>
              /\ ret' = "Shape has no fills"
              /\ UNCHANGED fields
        /\ fills # <<>> /\ fills[Len(fills)].tag = "Solid" =>
              /\ ret' = "Active fill is not a gradient"
              /\ UNCHANGED fields]_vars

\* a call refused on a Solid last fill that sits above a gradient with stops
C2_Witness ==
    /\ op = "add_fill_gradient_stops"
    /\ ret = "Active fill is not a gradient"
    /\ arg # <<>>
    /\ Len(fills) = 2
    /\ fills[1].tag = "LinearGradient"
    /\ fills[1].gradient.stops # <<>>
    /\ fills[2].tag = "Solid"

\* C3: on a last fill that is a gradient the call succeeds and the stops of
\* that fill become the old stops followed by the supplied ones in the order
\* supplied; its variant, the earlier fills and the length of the list stay.
C3_FillStopsOk ==
    [][op' = "add_fill_gradient_stops" /\ fills # <<>>
       /\ fills[Len(fills)].tag \in {"LinearGradient", "RadialGradient"} =>
        /\ ret' = "Ok"
        /\ Len(fills') = Len(fills)
        /\ \A i \in 1..(Len(fills) - 1) : fills'[i] = fills[i]
        /\ fills'[Len(fills)].tag = fills[Len(fills)].tag
        /\ fills'[Len(fills)].gradient.stops =
              fills[Len(fills)].gradient.stops \o StopsOf(arg')]_vars

\* a gradient that held one stop received two equal stops with a smaller
\* offset: the list is unsorted, repeats a stop and has an offset beyond 1
C3_Witness ==
    /\ op = "add_fill_gradient_stops"
    /\ ret = "Ok"
    /\ Len(arg) = 2
    /\ fills # <<>>
    /\ fills[Len(fills)].tag = "RadialGradient"
    /\ fills[Len(fills)].gradient.stops = <<Stop(0, 2), Stop(1, 0), Stop(1, 0)>>

\* C8: a new shape has no fill, add_fill(f) appends f behind the fills already
\* there and clear_fills empties the list.
C8_FillList ==
    /\ op = "new" => fills = <<>>
    /\ [][/\ op' = "add_fill" => fills' = fills \o <<arg'>>
          /\ op' = "clear_fills" => fills' = <<>>]_vars

\* a second, different fill was appended behind the first
C8_Witness ==
    /\ op = "add_fill"
    /\ Len(fills) = 2
    /\ fills[2] = arg
    /\ fills[1] # fills[2]

\* C9: with a stroke present set_stroke_fill(f) succeeds and repaints the last
\* stroke only; with no stroke it fails with "Shape has no strokes" and
\* changes nothing.
C9_SetStrokeFill ==
    [][op' = "set_stroke_fill" =>
        IF strokes = <<>>
        THEN /\ ret' = "Shape has no strokes"
             /\ UNCHANGED fields
        ELSE /\ ret' = "Ok"
             /\ Len(strokes') = Len(strokes)
             /\ \A i \in 1..(Len(strokes) - 1) : strokes'[i] = strokes[i]
             /\ strokes'[Len(strokes)] = [strokes[Len(strokes)] EXCEPT !.fill = arg']
             /\ UNCHANGED OtherThanStrokes]_vars

\* the second of two strokes was repainted and the first kept another paint
C9_Witness ==
    /\ op = "set_stroke_fill"
    /\ ret = "Ok"
    /\ Len(strokes) = 2
    /\ strokes[2].fill = arg
    /\ strokes[1].fill # arg

\* C10: add_stroke_gradient_stops fails with "Shape has no strokes" without a
\* stroke and with "Active stroke is not a gradient" on a Solid last paint,
\* changing nothing; on a gradient last paint it appends the supplied stops
\* in order and leaves the earlier strokes and the fills alone.
C10_StrokeStops ==
    [][op' = "add_stroke_gradient_stops" =>
        IF strokes = <<>>
        THEN /\ ret' = "Shape has no strokes"
             /\ UNCHANGED fields
        ELSE IF strokes[Len(strokes)].fill.tag = "Solid"
        THEN /\ ret' = "Active stroke is not a gradient"
             /\ UNCHANGED fields
        ELSE /\ ret' = "Ok"
             /\ Len(strokes') = Len(strokes)
             /\ \A i \in 1..(Len(strokes) - 1) : strokes'[i] = strokes[i]
             /\ strokes'[Len(strokes)].width = strokes[Len(strokes)].width
             /\ strokes'[Len(strokes)].fill.tag = strokes[Len(strokes)].fill.tag
             /\ strokes'[Len(strokes)].fill.gradient.stops =
                   strokes[Len(strokes)].fill.gradient.stops \o StopsOf(arg')
             /\ UNCHANGED OtherThanStrokes]_vars

\* the second stroke's gradient grew from one stop to three while the first
\* stroke kept a gradient of its own
C10_Witness ==
    /\ op = "add_stroke_gradient_stops"
    /\ ret = "Ok"
    /\ Len(arg) = 2
    /\ Len(strokes) = 2
    /\ strokes[1].fill.tag = "RadialGradient"
    /\ strokes[1].fill.gradient.stops # <<>>
    /\ strokes[2].fill.tag = "LinearGradient"
    /\ strokes[2].fill.gradient.stops = <<Stop(1, 0), Stop(0, 2), Stop(1, 0)>>

\* the transform without its translation has no inverse
Singular(m) == m[1] * m[4] - m[2] * m[3] = 0

\* C11: the path-space transform is "not applicable" (None) on every Rect and
\* Circle, whatever transform and selrect are, and is a matrix on every Path
\* and Bool whose transform without translation is invertible.
C11_PathTransformDefined ==
    op = "to_path_transform" =>
        /\ kind.tag \in {"Rect", "Circle"} => ret = None
        /\ kind.tag \in {"Path", "Bool"} /\ ~Singular(transform) => ret.some

\* a Bool under a sheared, scaled and translated transform got a matrix
C11_Witness ==
    /\ op = "to_path_transform"
    /\ kind.tag = "Bool"
    /\ transform = <<2, 1, 0, 1, 3, 5>>
    /\ selrect # new_empty
    /\ ret.some

\* C12: on a Path or Bool whose transform without translation is singular the
\* computation reports a failure that differs from the "not applicable"
\* result of a Rect or Circle.
C12_NotInvertibleReported ==
    op = "to_path_transform" /\ kind.tag \in {"Path", "Bool"} /\ Singular(transform) =>
        /\ ~ret.some
        /\ ret # None

\* C13: on a Path or Bool under a pure translation the path-space transform
\* is the identity matrix, for every selrect and every translation.
C13_TranslationGivesIdentity ==
    op = "to_path_transform" /\ kind.tag \in {"Path", "Bool"}
    /\ transform[1] = 1 /\ transform[2] = 0 /\ transform[3] = 0 /\ transform[4] = 1 =>
        ret = Some(SkMatrix(<<1, 1>>, <<0, 1>>, <<0, 1>>, <<0, 1>>, <<1, 1>>, <<0, 1>>))

\* a Path translated by (3, 5) whose selrect has its center off the origin
C13_Witness ==
    /\ op = "to_path_transform"
    /\ kind.tag = "Path"
    /\ transform = <<1, 0, 0, 1, 3, 5>>
    /\ selrect = Rect(0, 0, 1, 1)
    /\ ret.some

\* the middle of selrect
SelrectCenter ==
    Point(Q(selrect.left + selrect.right, 2), Q(selrect.top + selrect.bottom, 2))

Consistent == kind.tag \in {"Rect", "Circle"} => kind.rect = selrect

\* C15 as stated: in every reachable state the box of a Rect or Circle equals
\* selrect.
C15_BoxEqualsSelrect == Consistent

\* C15 amended: a new shape is consistent, every set_selrect makes the shape
\* consistent, and every mutator other than set_kind keeps it consistent.
C15_ConsistentUnlessSetKind ==
    /\ op = "new" => Consistent
    /\ [][/\ op' = "set_selrect" => Consistent'
          /\ Consistent /\ op' # "set_kind" => Consistent']_vars

\* a Circle installed with another box was brought back to selrect
C15_Witness ==
    /\ op = "set_selrect"
    /\ kind.tag = "Circle"
    /\ selrect = Rect(1, 1, 0, 1)
    /\ Consistent

\* C16: set_clip, set_rotation, set_transform, set_opacity, set_hidden and
\* set_blend_mode each store their argument in their own field and leave every
\* other field alone; no step changes id.
C16_FieldWriters ==
    [][/\ op' = "set_clip" =>
             /\ clip_content' = arg'
             /\ UNCHANGED <<id, children, kind, selrect, transform, rotation,
                            fills, strokes, blend_mode, opacity, hidden>>
       /\ op' = "set_rotation" =>
             /\ rotation' = arg'
             /\ UNCHANGED <<id, children, kind, selrect, transform, clip_content,
                            fills, strokes, blend_mode, opacity, hidden>>
       /\ op' = "set_transform" =>
             /\ transform' = arg'
             /\ UNCHANGED <<id, children, kind, selrect, rotation, clip_content,
                            fills, strokes, blend_mode, opacity, hidden>>
       /\ op' = "set_opacity" =>
             /\ opacity' = arg'
             /\ UNCHANGED <<id, children, kind, selrect, transform, rotation,
                            clip_content, fills, strokes, blend_mode, hidden>>
       /\ op' = "set_hidden" =>
             /\ hidden' = arg'
             /\ UNCHANGED <<id, children, kind, selrect, transform, rotation,
                            clip_content, fills, strokes, blend_mode, opacity>>
       /\ op' = "set_blend_mode" =>
             /\ blend_mode' = arg'
             /\ UNCHANGED <<id, children, kind, selrect, transform, rotation,
                            clip_content, fills, strokes, opacity, hidden>>
       /\ id' = id]_vars

\* a fully transparent, visible, rotated shape with a box and a transform of
\* its own: set_opacity(0) came last and left the other writers' values
C16_Witness ==
    /\ op = "set_opacity"
    /\ opacity = 0
    /\ hidden = FALSE
    /\ rotation = 90
    /\ transform = <<2, 1, -1, 1, 3, 5>>
    /\ clip_content = FALSE
    /\ blend_mode = "Multiply"
    /\ selrect = Rect(0, 0, 1, 1)
    /\ id = 1

\* C17: a new shape has no child, add_child(id) appends id behind the children
\* already there, a repeated id included, clear_children empties the list,
\* and neither changes fills, strokes or kind.
C17_ChildList ==
    /\ op = "new" => children = <<>>
    /\ [][/\ op' = "add_child" =>
                /\ children' = children \o <<arg'>>
                /\ UNCHANGED <<fills, strokes, kind>>
          /\ op' = "clear_children" =>
                /\ children' = <<>>
                /\ UNCHANGED <<fills, strokes, kind>>]_vars

\* an id was added a second time, behind another one, on a shape that has a
\* fill, a stroke and a Bool kind
C17_Witness ==
    /\ op = "add_child"
    /\ children = <<1, 0, 1>>
    /\ fills # <<>>
    /\ strokes # <<>>
    /\ kind.tag = "Bool"

====
